---------------------------- MODULE Spec2Model ----------------------------
(***************************************************************************)
(* A model of scrape_ibps.py: main() fetches the recruitment page, hands   *)
(* the markup to parse_recruitment_list() and saves the records with       *)
(* save_to_csv().  Text is modelled character by character (a string is a  *)
(* sequence of one-character strings), the document as the sequence of its *)
(* nodes in document order, each with its parent.                          *)
(***************************************************************************)
EXTENDS Integers, Sequences, FiniteSets, TLC

(***************************************************************************)
(* Characters and strings.                                                 *)
(***************************************************************************)
Chars(s) == [i \in 1..Len(s) |-> SubSeq(s, i, i)]

UpperSeq == Chars("ABCDEFGHIJKLMNOPQRSTUVWXYZ")
LowerSeq == Chars("abcdefghijklmnopqrstuvwxyz")
Upper == {UpperSeq[i] : i \in 1..Len(UpperSeq)}
Letter == Upper \cup {LowerSeq[i] : i \in 1..Len(LowerSeq)}
Digit == {"0", "1", "2", "3", "4", "5", "6", "7", "8", "9"}
Space == {" ", "\t", "\n", "\r"}
AlNum == Letter \cup Digit
WordChar == AlNum \cup {"_"}

\* str.lower() on one character and on a string
LowerChar(c) ==
  IF c \in Upper THEN LowerSeq[CHOOSE i \in 1..Len(UpperSeq) : UpperSeq[i] = c] ELSE c
Lower(s) == [i \in 1..Len(s) |-> LowerChar(s[i])]

\* s[p .. p+Len(w)-1] = w
StartsAt(s, p, w) ==
  /\ p >= 1
  /\ p + Len(w) - 1 <= Len(s)
  /\ \A k \in 1..Len(w) : s[p + k - 1] = w[k]

\* w in s
Contains(s, w) == \E p \in 1..(Len(s) + 1) : StartsAt(s, p, w)

\* s.endswith(w)
EndsWith(s, w) == StartsAt(s, Len(s) - Len(w) + 1, w)

\* str.strip()
Strip(s) ==
  LET keep == {i \in 1..Len(s) : s[i] \notin Space}
  IN  IF keep = {} THEN <<>>
      ELSE LET lo == CHOOSE i \in keep : \A j \in keep : i <= j
               hi == CHOOSE i \in keep : \A j \in keep : i >= j
           IN  SubSeq(s, lo, hi)

\* the end (exclusive) of the longest run of characters of class cls from p
RECURSIVE RunEnd(_, _, _)
RunEnd(s, p, cls) ==
  IF p <= Len(s) /\ s[p] \in cls THEN RunEnd(s, p + 1, cls) ELSE p

\* all of s[p .. p+n-1] exist and are in cls
AllIn(s, p, n, cls) ==
  /\ p + n - 1 <= Len(s)
  /\ \A k \in p..(p + n - 1) : s[k] \in cls

\* \b between s[p-1] and s[p]
WordBoundary(s, p) ==
  LET before == p - 1 >= 1 /\ p - 1 <= Len(s) /\ s[p - 1] \in WordChar
      after  == p >= 1 /\ p <= Len(s) /\ s[p] \in WordChar
  IN  before # after

\* the least element of a non-empty set of integers
MinOf(S) == CHOOSE x \in S : \A y \in S : x <= y
MaxOf(S) == CHOOSE x \in S : \A y \in S : x >= y

(***************************************************************************)
(* The text pattern matchers.  A search result is [hit, text]: hit is      *)
(* FALSE where re.search returns None.                                     *)
(***************************************************************************)
NoMatch == [hit |-> FALSE, text |-> <<>>]
Match(s, from, to) == [hit |-> TRUE, text |-> SubSeq(s, from, to - 1)]

\* line 76: \b(\d{1,2}[ \-\/][A-Za-z0-9]{1,3}[ \-\/]\d{2,4})\b
DateSep == {" ", "-", "/"}
\* the repetition counts of \d{1,2}, [A-Za-z0-9]{1,3} and \d{2,4}, in the
\* order a greedy backtracking matcher tries them
DateCounts ==
  [k \in 1..18 |->
     <<2 - ((k - 1) \div 9), 3 - (((k - 1) % 9) \div 3), 4 - ((k - 1) % 3)>>]
DateAlt1Fits(s, i, a, b, c) ==
  /\ WordBoundary(s, i)
  /\ AllIn(s, i, a, Digit)
  /\ AllIn(s, i + a, 1, DateSep)
  /\ AllIn(s, i + a + 1, b, AlNum)
  /\ AllIn(s, i + a + b + 1, 1, DateSep)
  /\ AllIn(s, i + a + b + 2, c, Digit)
  /\ WordBoundary(s, i + a + b + 2 + c)
\* the end (exclusive) of the match of the first alternative at i, 0 if none
DateAlt1End(s, i) ==
  IF s[i] \notin Digit THEN 0
  ELSE LET ok == {k \in 1..18 :
                    DateAlt1Fits(s, i, DateCounts[k][1], DateCounts[k][2], DateCounts[k][3])}
       IN  IF ok = {} THEN 0
           ELSE LET t == DateCounts[MinOf(ok)] IN i + t[1] + t[2] + t[3] + 2

\* line 76: \b([A-Za-z]{3,9}\s+\d{1,2},\s*\d{4})\b
\* the counts of [A-Za-z]{3,9} and \d{1,2} in the order they are tried; the
\* runs \s+ and \s* can only end where the whitespace ends, a digit follows
MonthCounts == [k \in 1..14 |-> <<9 - ((k - 1) \div 2), 2 - ((k - 1) % 2)>>]
DateAlt2FitEnd(s, i, m, d) ==
  LET e == RunEnd(s, i + m, Space)
      f == RunEnd(s, e + d + 1, Space)
  IN  IF /\ WordBoundary(s, i)
         /\ AllIn(s, i, m, Letter)
         /\ e > i + m
         /\ AllIn(s, e, d, Digit)
         /\ AllIn(s, e + d, 1, {","})
         /\ AllIn(s, f, 4, Digit)
         /\ WordBoundary(s, f + 4)
      THEN f + 4 ELSE 0
DateAlt2End(s, i) ==
  IF s[i] \notin Letter THEN 0
  ELSE LET ok == {k \in 1..14 :
                    DateAlt2FitEnd(s, i, MonthCounts[k][1], MonthCounts[k][2]) > 0}
       IN  IF ok = {} THEN 0
           ELSE LET t == MonthCounts[MinOf(ok)] IN DateAlt2FitEnd(s, i, t[1], t[2])

\* line 76: re.search of the date pattern: the leftmost match, the first
\* alternative before the second
DateSearch(s) ==
  LET at == {i \in 1..Len(s) : DateAlt1End(s, i) > 0 \/ DateAlt2End(s, i) > 0}
  IN  IF at = {} THEN NoMatch
      ELSE LET i == MinOf(at)
           IN  IF DateAlt1End(s, i) > 0 THEN Match(s, i, DateAlt1End(s, i))
               ELSE Match(s, i, DateAlt2End(s, i))

\* line 84: (Location[:\s]*[A-Za-z,\s\-]+)
LocPrefixCls == {":"} \cup Space
LocTailCls == Letter \cup {",", "-"} \cup Space
LocAlt1End(s, i) ==
  IF ~StartsAt(s, i, Chars("Location")) THEN 0
  ELSE LET b == i + 8
           j == RunEnd(s, b, LocPrefixCls)
           \* where [:\s]* may stop so that [A-Za-z,\s\-]+ takes a character
           stops == {p \in b..j : RunEnd(s, p, LocTailCls) > p}
       IN  IF stops = {} THEN 0 ELSE RunEnd(s, MaxOf(stops), LocTailCls)

\* line 84: ([A-Za-z\s]+(?:District|State|Region|City|Town))
LocWords ==
  <<Chars("District"), Chars("State"), Chars("Region"), Chars("City"), Chars("Town")>>
\* where one of the words starts
LocWordStarts(s) ==
  {m \in 1..Len(s) : s[m] \in Upper /\ \E w \in 1..Len(LocWords) : StartsAt(s, m, LocWords[w])}
\* [A-Za-z\s]+ takes s[i .. m-1], as much as leaves one of the words at m
LocAlt2End(s, i, starts) ==
  LET ok == {m \in starts : m > i /\ AllIn(s, i, m - i, Letter \cup Space)}
  IN  IF ok = {} THEN 0
      ELSE LET m == MaxOf(ok)
               w == MinOf({v \in 1..Len(LocWords) : StartsAt(s, m, LocWords[v])})
           IN  m + Len(LocWords[w])

\* line 84: re.search of the location pattern
LocSearch(s) ==
  LET starts == LocWordStarts(s)
      at == {i \in 1..Len(s) : LocAlt1End(s, i) > 0 \/ LocAlt2End(s, i, starts) > 0}
  IN  IF at = {} THEN NoMatch
      ELSE LET i == MinOf(at)
           IN  IF LocAlt1End(s, i) > 0 THEN Match(s, i, LocAlt1End(s, i))
               ELSE Match(s, i, LocAlt2End(s, i, starts))

\* line 63: keyword_pattern, compiled with re.I
KeywordWords ==
  <<Chars("recruit"), Chars("apply"), Chars("notification"), Chars("advertisement"),
    Chars("vacancy"), Chars("register"), Chars("click here"), Chars("recruitment"),
    Chars("notice")>>
KeywordSearch(s) == \E w \in 1..Len(KeywordWords) : Contains(Lower(s), KeywordWords[w])

(***************************************************************************)
(* The parsed document (BeautifulSoup(html, "html.parser"), line 44): the  *)
(* sequence of its nodes in document order.  A node is a tag or a string;  *)
(* parent is the index of its parent, Root for a child of the soup object. *)
(* class is the list of class tokens bs4 keeps for the tag.                *)
(***************************************************************************)
Root == 0

TagNode(name, parent, class, hasHref, href) ==
  [kind |-> "tag", name |-> name, parent |-> parent, class |-> class,
   hasHref |-> hasHref, href |-> href, s |-> <<>>]
StrNode(parent, s) ==
  [kind |-> "str", name |-> "", parent |-> parent, class |-> <<>>,
   hasHref |-> FALSE, href |-> <<>>, s |-> s]

\* the soup object is a Tag too
IsTag(d, n) == n = Root \/ d[n].kind = "tag"

\* n is a proper descendant of a
RECURSIVE IsUnder(_, _, _)
IsUnder(d, n, a) ==
  IF n = Root THEN FALSE ELSE d[n].parent = a \/ IsUnder(d, d[n].parent, a)

\* a set of node indices as a list in document order
RECURSIVE InOrder(_)
InOrder(S) == IF S = {} THEN <<>> ELSE <<MinOf(S)>> \o InOrder(S \ {MinOf(S)})
\* ... and in reverse document order
RECURSIVE InReverse(_)
InReverse(S) == IF S = {} THEN <<>> ELSE <<MaxOf(S)>> \o InReverse(S \ {MaxOf(S)})

Take(q, n) == SubSeq(q, 1, IF Len(q) < n THEN Len(q) ELSE n)

\* sep.join(parts)
RECURSIVE Join(_, _)
Join(parts, sep) ==
  IF parts = <<>> THEN <<>>
  ELSE IF Len(parts) = 1 THEN parts[1]
  ELSE parts[1] \o sep \o Join(Tail(parts), sep)

\* str.split(): the maximal runs of non-whitespace characters
RECURSIVE SplitFrom(_, _)
SplitFrom(s, p) ==
  LET b == RunEnd(s, p, Space)
      e == MinOf({k \in b..(Len(s) + 1) : k > Len(s) \/ s[k] \in Space})
  IN  IF b > Len(s) THEN <<>> ELSE <<SubSeq(s, b, e - 1)>> \o SplitFrom(s, e)
Split(s) == SplitFrom(s, 1)

\* Tag.get_text(sep, strip=True): the strings under n, each stripped, the
\* empty ones dropped, joined with sep
GetText(d, n, sep) ==
  LET ids == InOrder({k \in 1..Len(d) :
                        /\ d[k].kind = "str"
                        /\ IsUnder(d, k, n)
                        /\ Strip(d[k].s) # <<>>})
  IN  Join([i \in 1..Len(ids) |-> Strip(d[ids[i]].s)], sep)

\* line 48: the keywords, in the order of the loop
ContainerKeywords ==
  <<Chars("recruit"), Chars("career"), Chars("notice"), Chars("vacancy"),
    Chars("advertisement"), Chars("notification")>>

\* soup.find_all(lambda ...) of lines 49-52 for one keyword: every tag of the
\* document, in document order, that the lambda accepts
ContainerNames == {"div", "section", "ul", "tbody"}
ContainerMatches(d, n, keyword) ==
  /\ d[n].kind = "tag"
  /\ d[n].name \in ContainerNames
  /\ d[n].class # <<>>
  /\ LET tokens == Split(Join(d[n].class, <<" ">>))
     IN  \E c \in 1..Len(tokens) : Contains(Lower(tokens[c]), keyword)
\* a variant that leaves out what an earlier keyword of the loop matched
FindAllUnseen(d, keyword) ==
  LET k == CHOOSE i \in 1..Len(ContainerKeywords) : ContainerKeywords[i] = keyword
  IN  InOrder({n \in 1..Len(d) :
                 /\ ContainerMatches(d, n, keyword)
                 /\ \A e \in 1..(k - 1) : ~ContainerMatches(d, n, ContainerKeywords[e])})
FindAllContainers(d, keyword) ==
  InOrder({n \in 1..Len(d) : ContainerMatches(d, n, keyword)})

\* soup.find(name): is there such a tag, and the first one in document order
HasTag(d, name) == \E n \in 1..Len(d) : d[n].kind = "tag" /\ d[n].name = name
Find(d, name) == MinOf({n \in 1..Len(d) : d[n].kind = "tag" /\ d[n].name = name})

\* a variant that looks for <body> first
BodyFirstContainer(d) ==
  IF HasTag(d, "body") THEN Find(d, "body")
  ELSE IF HasTag(d, "main") THEN Find(d, "main")
  ELSE Root

\* line 55: soup.find("main") or soup.find("body") or soup (a Tag is truthy)
FallbackContainer(d) ==
  IF HasTag(d, "main") THEN Find(d, "main")
  ELSE IF HasTag(d, "body") THEN Find(d, "body")
  ELSE Root

\* container.find_all("a", href=True): the anchors under c that carry a target
IsAnchor(d, n) == d[n].kind = "tag" /\ d[n].name = "a" /\ d[n].hasHref
FindAllAnchors(d, c) == InOrder({n \in 1..Len(d) : IsAnchor(d, n) /\ IsUnder(d, n, c)})

\* line 72: the limit of find_all_next and find_all_previous
SearchLimit == 3

\* p.find_all_next(limit): the first tags after p in document order (its own
\* descendants included).  The soup object is outside the next/previous
\* chain: nothing follows it and it precedes nothing.
FindAllNext(d, p, limit) ==
  IF p = Root THEN <<>>
  ELSE Take(InOrder({n \in (p + 1)..Len(d) : d[n].kind = "tag"}), limit)

\* p.find_all_previous(limit): the nearest tags before p, nearest first (its
\* ancestors included)
FindAllPrevious(d, p, limit) ==
  IF p = Root THEN <<>>
  ELSE Take(InReverse({n \in 1..(p - 1) : d[n].kind = "tag"}), limit)

\* a variant that searches backward before forward
BackwardFirst(d, a) ==
  LET parent == d[a].parent
  IN  <<parent>> \o FindAllPrevious(d, parent, SearchLimit)
                 \o FindAllNext(d, parent, SearchLimit)

\* line 72
SearchNodes(d, a) ==
  LET parent == d[a].parent
  IN  <<parent>> \o FindAllNext(d, parent, SearchLimit)
                 \o FindAllPrevious(d, parent, SearchLimit)

\* lines 73-79 and 81-87: the match of the first node of the list whose text
\* has one (every node of the list is a Tag, hence truthy)
RECURSIVE FirstDate(_, _, _)
FirstDate(d, nodes, k) ==
  IF k > Len(nodes) THEN NoMatch
  ELSE LET m == DateSearch(GetText(d, nodes[k], <<" ">>))
       IN  IF m.hit THEN m ELSE FirstDate(d, nodes, k + 1)
RECURSIVE FirstLocation(_, _, _)
FirstLocation(d, nodes, k) ==
  IF k > Len(nodes) THEN NoMatch
  ELSE LET m == LocSearch(GetText(d, nodes[k], <<" ">>))
       IN  IF m.hit THEN m ELSE FirstLocation(d, nodes, k + 1)

\* line 26 and urljoin(base_url, href) of lines 67 and 111, for the targets
\* the documents carry: an absolute URL, a path from the site root, a path
\* relative to the (empty) base path, and the empty target
BASE_URL == Chars("https://www.ibps.in")
UrlJoin(base, href) ==
  IF href = <<>> THEN base
  ELSE IF StartsAt(Lower(href), 1, Chars("https://")) \/ StartsAt(Lower(href), 1, Chars("http://"))
       THEN href
  ELSE IF href[1] = "/" THEN base \o href
  ELSE base \o <<"/">> \o href

\* line 91, the extensions
DocExtensions == {Chars(".pdf"), Chars(".doc"), Chars(".docx")}
\* a variant that compares the extension without lower()
PassesCaseSensitive(title, href) ==
  \/ KeywordSearch(title)
  \/ Contains(Lower(title), Chars("ibps"))
  \/ \E e \in DocExtensions : EndsWith(href, e)
\* a variant that forgets ".pdf"
PassesWithoutPdf(title, href) ==
  \/ KeywordSearch(title)
  \/ Contains(Lower(title), Chars("ibps"))
  \/ \E e \in DocExtensions \ {Chars(".pdf")} : EndsWith(Lower(href), e)

\* line 91, first test: the title, then the raw target
PassesTitleOrExtension(title, href) ==
  \/ KeywordSearch(title)
  \/ Contains(Lower(title), Chars("ibps"))
  \/ \E e \in DocExtensions : EndsWith(Lower(href), e)
\* line 92: the raw target alone ("wp-content" is compared case-sensitively)
PassesTarget(href) ==
  \/ Contains(href, Chars("wp-content"))
  \/ Contains(Lower(href), Chars("recruit"))
  \/ Contains(Lower(href), Chars("notification"))
\* lines 91-93: the anchor is kept unless both tests fail
Accepted(title, href) == PassesTitleOrExtension(title, href) \/ PassesTarget(href)

\* lines 89 and 106: text or placeholder
TitleOr(text, placeholder) == IF text = <<>> THEN placeholder ELSE text

\* lines 95-100: the record of an accepted anchor
PrimaryRecord(d, a) ==
  LET nodes == SearchNodes(d, a)
      date == FirstDate(d, nodes, 1)
      loc == FirstLocation(d, nodes, 1)
  IN  [title |-> TitleOr(GetText(d, a, <<" ">>), Chars("IBPS Notice")),
       location |-> IF loc.hit THEN loc.text ELSE <<>>,
       post_date |-> IF date.hit THEN date.text ELSE <<>>,
       link |-> UrlJoin(BASE_URL, d[a].href)]

\* lines 106-112: the record of the fallback path
FallbackRecord(d, a) ==
  [title |-> TitleOr(GetText(d, a, <<" ">>), Chars("IBPS PDF Notice")),
   location |-> <<>>,
   post_date |-> <<>>,
   link |-> UrlJoin(BASE_URL, d[a].href)]

\* line 61: list({(a.get_text(strip=True), a['href']): a for a in anchors}.values()).
\* A dict keeps a key at the position of its first insertion and the value of
\* its last one.
AnchorKey(d, a) == <<GetText(d, a, <<>>), d[a].href>>
DedupAnchors(d, as) ==
  LET firsts == {i \in 1..Len(as) :
                   \A j \in 1..(i - 1) : AnchorKey(d, as[j]) # AnchorKey(d, as[i])}
      order == InOrder(firsts)
      lastOf(i) == MaxOf({j \in 1..Len(as) : AnchorKey(d, as[j]) = AnchorKey(d, as[i])})
  IN  [k \in 1..Len(order) |-> as[lastOf(order[k])]]

\* lines 58-60: the anchors of every container of the list, container by container
RECURSIVE CollectAnchors(_, _)
CollectAnchors(d, containers) ==
  IF containers = <<>> THEN <<>>
  ELSE FindAllAnchors(d, Head(containers)) \o CollectAnchors(d, Tail(containers))

\* a variant that keys the final pass on the title
RECURSIVE UniqueByTitle(_, _)
UniqueByTitle(rs, seenLinks) ==
  IF rs = <<>> THEN <<>>
  ELSE IF Head(rs).title \in seenLinks THEN UniqueByTitle(Tail(rs), seenLinks)
  ELSE <<Head(rs)>> \o UniqueByTitle(Tail(rs), seenLinks \cup {Head(rs).title})

\* lines 114-120: keep the first record of every link
RECURSIVE Unique(_, _)
Unique(rs, seenLinks) ==
  IF rs = <<>> THEN <<>>
  ELSE IF Head(rs).link \in seenLinks THEN Unique(Tail(rs), seenLinks)
  ELSE <<Head(rs)>> \o Unique(Tail(rs), seenLinks \cup {Head(rs).link})
(***************************************************************************)
(* The pages fetch_page may return.  A page is a list of at most MaxBlocks *)
(* fragments of markup: bare, all in <body>, all in <body><main>, or all   *)
(* but the last in <main>.  The parser turns it into the node list.  In a  *)
(* fragment a parent of 0 is the place the fragment is attached to.        *)
(***************************************************************************)
MaxBlocks == 3

Elem(name, parent, class) == TagNode(name, parent, class, FALSE, <<>>)
Anchor(parent, href) == TagNode("a", parent, <<>>, TRUE, Chars(href))
Text(parent, s) == StrNode(parent, Chars(s))

\* <div class="recruitment-list"><a href="/job1">Recruitment Notice</a> Location: Mumbai 12-Jan-2024</div>
BlockListing ==
  <<Elem("div", 0, <<Chars("recruitment-list")>>),
    Anchor(1, "/job1"), Text(2, "Recruitment Notice"),
    Text(1, " Location: Mumbai 12-Jan-2024")>>
\* <section class="Career notice-board"><a href="/job1">Recruitment Notice</a> 7-Apr-25
\*   <a href="https://www.ibps.in/job1">Apply</a></section>
BlockBoard ==
  <<Elem("section", 0, <<Chars("Career"), Chars("notice-board")>>),
    Anchor(1, "/job1"), Text(2, "Recruitment Notice"),
    Text(1, " 7-Apr-25 "),
    Anchor(1, "https://www.ibps.in/job1"), Text(5, "Apply")>>
\* <p><a href="/about">About</a><a href="/home"><img></a><a name>top</a>
\*   <a href="/wp-content/uploads/adv">Details</a></p>
BlockNav ==
  <<Elem("p", 0, <<>>),
    Anchor(1, "/about"), Text(2, "About"),
    Anchor(1, "/home"), Elem("img", 4, <<>>),
    Elem("a", 1, <<>>), Text(6, "top"),
    Anchor(1, "/wp-content/uploads/adv"), Text(8, "Details")>>
\* <p><a href="/files/Form.PDF">Form</a></p><span>Updated 7/4/25</span>
BlockForm ==
  <<Elem("p", 0, <<>>), Anchor(1, "/files/Form.PDF"), Text(2, "Form"),
    Elem("span", 0, <<>>), Text(4, "Updated 7/4/25")>>
\* <a href="/notice.pdf">Download</a>
BlockDownload ==
  <<Anchor(0, "/notice.pdf"), Text(1, "Download")>>
\* <p>Pune City, March 5, 2024</p>
BlockDated ==
  <<Elem("p", 0, <<>>), Text(1, "Pune City, March 5, 2024")>>

Blocks == <<BlockListing, BlockBoard, BlockNav, BlockForm, BlockDownload, BlockDated>>

Wraps == {"none", "mainFirst", "body", "bodyMain"}

\* the tags that open before the first fragment
WrapNodes(wrap) ==
  CASE wrap = "none" -> <<>>
    [] wrap = "mainFirst" -> <<Elem("main", Root, <<>>)>>
    [] wrap = "body" -> <<Elem("body", Root, <<>>)>>
    [] wrap = "bodyMain" -> <<Elem("body", Root, <<>>), Elem("main", 1, <<>>)>>

\* the node the k-th of n fragments is attached to: with "mainFirst" the last
\* fragment follows </main>
AttachPoint(wrap, k, n) ==
  CASE wrap = "none" -> Root
    [] wrap = "body" -> 1
    [] wrap = "bodyMain" -> 2
    [] wrap = "mainFirst" -> IF k < n THEN 1 ELSE Root

RECURSIVE Place(_, _, _, _)
Place(wrap, bs, k, acc) ==
  IF k > Len(bs) THEN acc
  ELSE LET b == Blocks[bs[k]]
           at == AttachPoint(wrap, k, Len(bs))
           shifted == [i \in 1..Len(b) |->
                         [b[i] EXCEPT !.parent =
                            IF b[i].parent = 0 THEN at ELSE b[i].parent + Len(acc)]]
       IN  Place(wrap, bs, k + 1, acc \o shifted)

\* line 44: BeautifulSoup(html, "html.parser")
BeautifulSoup(page) == Place(page.wrap, page.blocks, 1, WrapNodes(page.wrap))

BlockLists == UNION {[1..n -> 1..Len(Blocks)] : n \in 1..MaxBlocks}
Pages == [status : {"markup"}, wrap : Wraps, blocks : BlockLists]

\* what fetch_page returns: None (line 41), or resp.text, which may be empty
NoPage(status) == [status |-> status, wrap |-> "none", blocks |-> <<>>]
FetchResults == {NoPage("None"), NoPage("empty")} \cup Pages

\* a variant that tests "html is None"
IsNone(h) == h.status = "None"

\* line 142: not html
Falsy(h) == h.status \in {"None", "empty"}

(***************************************************************************)
(* The program: main() and the calls it makes.                             *)
(***************************************************************************)
VARIABLES
  pc,                   \* where main() is
  html,                 \* line 141
  soup,                 \* line 44
  possible_containers,  \* line 47
  keyword,              \* line 48: the index of the loop
  anchors,              \* lines 58, 61
  ai,                   \* line 65: the index of the loop
  results,              \* line 45
  items,                \* line 145: the list parse_recruitment_list returned
  dirs,                 \* the directories os.makedirs created
  files,                \* the CSV files written, each the list of its rows
  parseCalled,          \* history: parse_recruitment_list was invoked
  usedFallbackContainer,\* history: line 56 ran
  collected,            \* history: the anchors of lines 58-60, before line 61
  skipped,              \* history: the anchors line 93 discarded
  origin,               \* history: the anchor every record of results came from
  viaFallback           \* history: lines 103-112 appended a record

vars ==
  <<pc, html, soup, possible_containers, keyword, anchors, ai, results, items,
    dirs, files, parseCalled, usedFallbackContainer, collected, skipped, origin,
    viaFallback>>

parseVars ==
  <<soup, possible_containers, keyword, anchors, ai, results, items,
    usedFallbackContainer, collected, skipped, origin, viaFallback>>

Init ==
  /\ pc = "fetch"
  /\ html = NoPage("unfetched")
  /\ soup = <<>>
  /\ possible_containers = <<>>
  /\ keyword = 1
  /\ anchors = <<>>
  /\ ai = 1
  /\ results = <<>>
  /\ items = <<>>
  /\ dirs = {}
  /\ files = <<>>
  /\ parseCalled = FALSE
  /\ usedFallbackContainer = FALSE
  /\ collected = <<>>
  /\ skipped = {}
  /\ origin = <<>>
  /\ viaFallback = FALSE

\* line 141: html = fetch_page(...)
FetchPage ==
  /\ pc = "fetch"
  /\ \E r \in FetchResults : html' = r
  /\ pc' = "check"
  /\ UNCHANGED <<parseVars, dirs, files, parseCalled>>

\* lines 142-144: no content, main returns
MainExit ==
  /\ pc = "check"
  /\ Falsy(html)
  /\ pc' = "done"
  /\ UNCHANGED <<html, parseVars, dirs, files, parseCalled>>

\* lines 145, 44-47: parse_recruitment_list is entered
ParseBegin ==
  /\ pc = "check"
  /\ ~Falsy(html)
  /\ parseCalled' = TRUE
  /\ soup' = BeautifulSoup(html)
  /\ results' = <<>>
  /\ possible_containers' = <<>>
  /\ keyword' = 1
  /\ pc' = "containers"
  /\ UNCHANGED <<html, anchors, ai, items, dirs, files, usedFallbackContainer,
                 collected, skipped, origin, viaFallback>>

\* lines 48-52: one turn of the keyword loop
SelectContainers ==
  /\ pc = "containers"
  /\ possible_containers' =
       possible_containers \o FindAllContainers(soup, ContainerKeywords[keyword])
  /\ keyword' = keyword + 1
  /\ pc' = IF keyword = Len(ContainerKeywords) THEN "container_fallback" ELSE "containers"
  /\ UNCHANGED <<html, soup, anchors, ai, results, items, dirs, files, parseCalled,
                 usedFallbackContainer, collected, skipped, origin, viaFallback>>

\* lines 54-56
ContainerFallback ==
  /\ pc = "container_fallback"
  /\ IF possible_containers = <<>>
     THEN /\ possible_containers' = <<FallbackContainer(soup)>>
          /\ usedFallbackContainer' = TRUE
     ELSE UNCHANGED <<possible_containers, usedFallbackContainer>>
  /\ pc' = "collect"
  /\ UNCHANGED <<html, soup, keyword, anchors, ai, results, items, dirs, files,
                 parseCalled, collected, skipped, origin, viaFallback>>

\* lines 58-60
Collect ==
  /\ pc = "collect"
  /\ anchors' = CollectAnchors(soup, possible_containers)
  /\ collected' = CollectAnchors(soup, possible_containers)
  /\ pc' = "dedup_anchors"
  /\ UNCHANGED <<html, soup, possible_containers, keyword, ai, results, items, dirs,
                 files, parseCalled, usedFallbackContainer, skipped, origin, viaFallback>>

\* line 61
Dedup ==
  /\ pc = "dedup_anchors"
  /\ anchors' = DedupAnchors(soup, anchors)
  /\ ai' = 1
  /\ pc' = IF anchors' = <<>> THEN "fallback" ELSE "loop"
  /\ UNCHANGED <<html, soup, possible_containers, keyword, results, items, dirs, files,
                 parseCalled, usedFallbackContainer, collected, skipped, origin,
                 viaFallback>>

\* lines 65-100: one turn of the loop over the anchors
ProcessAnchor ==
  /\ pc = "loop"
  /\ LET a == anchors[ai]
         title == TitleOr(GetText(soup, a, <<" ">>), Chars("IBPS Notice"))
     IN  IF Accepted(title, soup[a].href)
         THEN /\ results' = Append(results, PrimaryRecord(soup, a))
              /\ origin' = Append(origin, a)
              /\ UNCHANGED skipped
         ELSE /\ skipped' = skipped \cup {a}
              /\ UNCHANGED <<results, origin>>
  /\ ai' = ai + 1
  /\ pc' = IF ai = Len(anchors) THEN "fallback" ELSE "loop"
  /\ UNCHANGED <<html, soup, possible_containers, keyword, anchors, items, dirs, files,
                 parseCalled, usedFallbackContainer, collected, viaFallback>>

\* lines 102-112
FallbackPath ==
  /\ pc = "fallback"
  /\ IF results = <<>>
     THEN LET pdfs == InOrder({n \in 1..Len(soup) :
                                 /\ IsAnchor(soup, n)
                                 /\ EndsWith(Lower(soup[n].href), Chars(".pdf"))})
          IN  /\ results' = [k \in 1..Len(pdfs) |-> FallbackRecord(soup, pdfs[k])]
              /\ origin' = pdfs
              /\ viaFallback' = (pdfs # <<>>)
     ELSE UNCHANGED <<results, origin, viaFallback>>
  /\ pc' = "final"
  /\ UNCHANGED <<html, soup, possible_containers, keyword, anchors, ai, items, dirs,
                 files, parseCalled, usedFallbackContainer, collected, skipped>>

\* lines 114-123, 145: the final pass, and the return to main
FinalPass ==
  /\ pc = "final"
  /\ items' = Unique(results, {})
  /\ pc' = "save"
  /\ UNCHANGED <<html, soup, possible_containers, keyword, anchors, ai, results, dirs,
                 files, parseCalled, usedFallbackContainer, collected, skipped, origin,
                 viaFallback>>

\* lines 146-148, 125-138: save_to_csv(items); rows in the column order of line 136
SaveToCsv ==
  /\ pc = "save"
  /\ IF items = <<>>
     THEN UNCHANGED <<dirs, files>>
     ELSE /\ dirs' = dirs \cup {"data"}
          /\ files' = Append(files,
               [k \in 1..Len(items) |->
                  <<items[k].title, items[k].location, items[k].post_date, items[k].link>>])
  /\ pc' = "done"
  /\ UNCHANGED <<html, parseVars, parseCalled>>

Next ==
  \/ FetchPage
  \/ MainExit
  \/ ParseBegin
  \/ SelectContainers
  \/ ContainerFallback
  \/ Collect
  \/ Dedup
  \/ ProcessAnchor
  \/ FallbackPath
  \/ FinalPass
  \/ SaveToCsv

Spec == Init /\ [][Next]_vars

(***************************************************************************)
(* The claims.                                                             *)
(***************************************************************************)
\* parse_recruitment_list has returned to main
Returned == parseCalled /\ pc \in {"save", "done"}

\* the records of rs whose link no earlier record of rs carries
FirstPerLink(rs) ==
  LET keep == InOrder({i \in 1..Len(rs) : \A j \in 1..(i - 1) : rs[j].link # rs[i].link})
  IN  [k \in 1..Len(keep) |-> rs[keep[k]]]

\* C1: the list parse_recruitment_list returns is the list of candidate
\* records (primary or fallback) with, for every link, only the first record
\* carrying it, in the original order; no two returned records share a link.
C1_FinalPassKeepsFirstPerLink ==
  Returned =>
    /\ items = FirstPerLink(results)
    /\ \A i, j \in 1..Len(items) : i # j => items[i].link # items[j].link

\* C1, witness: two accepted anchors resolve to one link under different
\* titles, and only the first of the two records is returned.
C1_Witness ==
  /\ Returned
  /\ \E i, j \in 1..Len(results) :
       /\ i < j
       /\ results[i].link = results[j].link
       /\ results[i].title # results[j].title
       /\ \E k \in 1..Len(items) : items[k] = results[i]
       /\ \A k \in 1..Len(items) : items[k].title # results[j].title

\* C5: a CSV file (or its directory) exists only if the fetch returned
\* content and the extractor returned a record; without content the
\* extractor is never invoked; with no record nothing is written.
C5_WriteOnlyWithContentAndRecords ==
  /\ html.status \in {"None", "empty"} => ~parseCalled /\ files = <<>> /\ dirs = {}
  /\ files # <<>> \/ dirs # {} => html.status = "markup" /\ parseCalled /\ items # <<>>
  /\ pc = "done" /\ items = <<>> => files = <<>> /\ dirs = {}

\* C5, witness: the fetch reported no content and main has returned with
\* the extractor never invoked and nothing written.
C5_Witness ==
  /\ pc = "done"
  /\ html.status = "None"
  /\ ~parseCalled
  /\ files = <<>>

\* no tag of d is matched by a class keyword
NoClassMatch(d) ==
  \A n \in 1..Len(d) : \A k \in 1..Len(ContainerKeywords) :
    ~ContainerMatches(d, n, ContainerKeywords[k])
\* n is the first tag of d with that name
FirstNamed(d, n, name) ==
  /\ d[n].kind = "tag" /\ d[n].name = name
  /\ \A m \in 1..(n - 1) : ~(d[m].kind = "tag" /\ d[m].name = name)

\* C7: the container selection is never empty, and when no element matches
\* a class keyword it is exactly one node: the <main> element if there is
\* one, otherwise the <body> element if there is one, otherwise the root.
C7_ContainerSelectionNonEmpty ==
  parseCalled /\ pc \notin {"containers", "container_fallback"} =>
    /\ Len(possible_containers) >= 1
    /\ pc = "collect" /\ NoClassMatch(soup) =>
         /\ Len(possible_containers) = 1
         /\ LET c == possible_containers[1]
                hasMain == \E n \in 1..Len(soup) : FirstNamed(soup, n, "main")
                hasBody == \E n \in 1..Len(soup) : FirstNamed(soup, n, "body")
            IN  IF hasMain THEN c # Root /\ FirstNamed(soup, c, "main")
                ELSE IF hasBody THEN c # Root /\ FirstNamed(soup, c, "body")
                ELSE c = Root

\* C7, witness: nothing matched, the document has a <body> and a <main>, and
\* the selection has been made.
C7_Witness ==
  /\ pc = "collect"
  /\ usedFallbackContainer
  /\ HasTag(soup, "main")
  /\ HasTag(soup, "body")

\* C10: the fallback path adds records only for anchors that lie in no
\* selected container; when the selection fell back to the document root it
\* adds none.
C10_FallbackOnlyOutsideContainers ==
  /\ viaFallback =>
       \A k \in 1..Len(origin) : \A c \in 1..Len(possible_containers) :
         ~IsUnder(soup, origin[k], possible_containers[c])
  /\ parseCalled /\ possible_containers = <<Root>> => ~viaFallback

\* C10, witness: the fallback path has added a record.
C10_Witness ==
  /\ pc = "final"
  /\ viaFallback
  /\ Len(results) >= 1
  /\ Len(possible_containers) >= 1

\* the anchors of the primary path have all been examined
Examined == parseCalled /\ pc = "fallback"

\* the inclusion conditions of the filter on a visible text and a raw target
AnyInclusionCondition(text, href) ==
  \/ KeywordSearch(text)
  \/ Contains(Lower(text), Chars("ibps"))
  \/ \E e \in {Chars(".pdf"), Chars(".doc"), Chars(".docx")} : EndsWith(Lower(href), e)
  \/ Contains(href, Chars("wp-content"))
  \/ Contains(Lower(href), Chars("recruit"))
  \/ Contains(Lower(href), Chars("notification"))

\* C2: every deduplicated anchor the primary path examines contributes a
\* record if and only if one of the six inclusion conditions holds, the
\* keyword and "ibps" conditions taken on its visible text and the other four
\* on its raw target; an anchor with none, empty text included, is discarded.
C2_FilterSoundness ==
  Examined =>
    \A k \in 1..Len(anchors) :
      LET a == anchors[k]
          accepted == \E r \in 1..Len(origin) : origin[r] = a
      IN  /\ accepted <=> AnyInclusionCondition(GetText(soup, a, <<" ">>), soup[a].href)
          /\ ~accepted <=> a \in skipped

\* the page of the example: the listing fragment alone
ExamplePage == [status |-> "markup", wrap |-> "none", blocks |-> <<1>>]

\* C3: for <div class="recruitment-list"><a href="/job1">Recruitment Notice</a>
\* Location: Mumbai 12-Jan-2024</div> the extractor returns exactly one record:
\* title "Recruitment Notice", location exactly "Location: Mumbai", post date
\* "12-Jan-2024", link "https://www.ibps.in/job1".
C3_ExampleRecord ==
  Returned /\ html = ExamplePage =>
    items = <<[title |-> Chars("Recruitment Notice"),
               location |-> Chars("Location: Mumbai"),
               post_date |-> Chars("12-Jan-2024"),
               link |-> Chars("https://www.ibps.in/job1")]>>

\* the anchors of `collected` with, for every key, the first element collected
\* with it
KeepFirstAnchors(d, as) ==
  LET firsts == InOrder({i \in 1..Len(as) :
                   \A j \in 1..(i - 1) :
                     <<GetText(d, as[j], <<>>), d[as[j]].href>>
                       # <<GetText(d, as[i], <<>>), d[as[i]].href>>})
  IN  [k \in 1..Len(firsts) |-> as[firsts[k]]]

\* C6: after the anchors of all containers are merged and deduplicated by
\* (trimmed visible text, raw target), the element kept for a key is the first
\* one collected with that key, in the order of first occurrence.
C6_FirstOccurrenceWins ==
  parseCalled /\ pc \in {"loop", "fallback"} =>
    anchors = KeepFirstAnchors(soup, collected)

\* the document of the fallback example: nothing matches a class keyword, and
\* its only anchor is <a href="/notice.pdf">Download</a>
OnlyDownloadAnchor(d, a) ==
  /\ IsAnchor(d, a)
  /\ d[a].href = Chars("/notice.pdf")
  /\ GetText(d, a, <<" ">>) = Chars("Download")
  /\ \A n \in 1..Len(d) : d[n].kind = "tag" /\ d[n].name = "a" => n = a
DownloadDocument(d) ==
  /\ NoClassMatch(d)
  /\ \E a \in 1..Len(d) : OnlyDownloadAnchor(d, a)
DownloadAnchor(d) == CHOOSE a \in 1..Len(d) : OnlyDownloadAnchor(d, a)

\* C4, as claimed: for such a document the extractor returns exactly one
\* record, produced by the fallback path, with title "Download", empty
\* location, empty post date and a link ending in /notice.pdf, whatever text
\* surrounds the anchor.
C4_AlwaysFallbackRecord ==
  Returned /\ DownloadDocument(soup) =>
    /\ Len(items) = 1
    /\ viaFallback
    /\ items[1].title = Chars("Download")
    /\ items[1].location = <<>>
    /\ items[1].post_date = <<>>
    /\ EndsWith(items[1].link, Chars("/notice.pdf"))

\* C4, amended: for such a document the extractor returns exactly one record,
\* with title "Download" and a link ending in /notice.pdf.  The fallback path
\* produces it, with empty location and post date, exactly when the anchor
\* lies outside the selected container; otherwise the primary path produces
\* it, and its post date (location) is non-empty whenever the text of the
\* anchor's parent holds a date (location) match.
C4_OneDownloadRecord ==
  Returned /\ DownloadDocument(soup) =>
    LET a == DownloadAnchor(soup)
        parentText == GetText(soup, soup[a].parent, <<" ">>)
    IN  /\ Len(items) = 1
        /\ items[1].title = Chars("Download")
        /\ EndsWith(items[1].link, Chars("/notice.pdf"))
        /\ Len(possible_containers) = 1
        /\ viaFallback <=> ~IsUnder(soup, a, possible_containers[1])
        /\ viaFallback => items[1].location = <<>> /\ items[1].post_date = <<>>
        /\ ~viaFallback =>
             /\ DateSearch(parentText).hit => items[1].post_date # <<>>
             /\ LocSearch(parentText).hit => items[1].location # <<>>

\* C4, witness: the primary path produced the record of such a document, with
\* a post date taken from the text around the anchor.
C4_Witness ==
  /\ Returned
  /\ DownloadDocument(soup)
  /\ ~viaFallback
  /\ Len(items) = 1
  /\ items[1].post_date # <<>>

\* the number of occurrences of x in the list q
Count(q, x) == Cardinality({i \in 1..Len(q) : q[i] = x})
\* the keywords (by index) that match tag n
KeywordsOf(d, n) ==
  {k \in 1..Len(ContainerKeywords) : ContainerMatches(d, n, ContainerKeywords[k])}
\* the keyword loop has ended
Selected == parseCalled /\ pc = "container_fallback"

\* C8, as claimed: the list built from the six keywords holds every matching
\* element exactly once, in document order.
C8_OnceInDocumentOrder ==
  Selected =>
    possible_containers = InOrder({n \in 1..Len(soup) : KeywordsOf(soup, n) # {}})

\* the matches of the keywords from the k-th on, keyword by keyword
RECURSIVE MatchesFrom(_, _)
MatchesFrom(d, k) ==
  IF k > Len(ContainerKeywords) THEN <<>>
  ELSE InOrder({n \in 1..Len(d) : k \in KeywordsOf(d, n)}) \o MatchesFrom(d, k + 1)

\* C8, amended: the list holds every matching element once for each keyword
\* its class tokens match (so at least once); it is ordered by keyword, in
\* the order of the keyword list, and in document order within one keyword.
C8_OncePerKeyword ==
  Selected =>
    /\ \A n \in 1..Len(soup) : Count(possible_containers, n) = Cardinality(KeywordsOf(soup, n))
    /\ possible_containers = MatchesFrom(soup, 1)

\* C8, witness: an element is listed twice, and an element is listed before
\* one that precedes it in the document.
C8_Witness ==
  /\ Selected
  /\ \E i, j \in 1..Len(possible_containers) :
       i < j /\ possible_containers[i] = possible_containers[j]
  /\ \E i, j \in 1..Len(possible_containers) :
       i < j /\ possible_containers[i] > possible_containers[j]

\* the context of anchor a as the claim lists it: the parent, the nearest
\* tags after it, the nearest tags before it (none around the soup object)
TagsAfter(d, p) == IF p = Root THEN {} ELSE {n \in (p + 1)..Len(d) : d[n].kind = "tag"}
TagsBefore(d, p) == IF p = Root THEN {} ELSE {n \in 1..(p - 1) : d[n].kind = "tag"}
ForwardNodes(d, p) ==
  InOrder({n \in TagsAfter(d, p) : Cardinality({m \in TagsAfter(d, p) : m < n}) < 3})
BackwardNodes(d, p) ==
  InReverse({n \in TagsBefore(d, p) : Cardinality({m \in TagsBefore(d, p) : m > n}) < 3})
Context(d, a) ==
  <<d[a].parent>> \o ForwardNodes(d, d[a].parent) \o BackwardNodes(d, d[a].parent)
DateOf(d, n) == DateSearch(GetText(d, n, <<" ">>))

\* C9: the post date of an accepted anchor is the date match of the first
\* node, in the order parent, up to 3 forward nodes, up to 3 backward nodes,
\* whose text has one, and the empty string when none of these at most 7
\* nodes has one.
C9_DateFromFirstMatchingNode ==
  Examined =>
    \A r \in 1..Len(results) :
      LET nodes == Context(soup, origin[r])
      IN  /\ Len(nodes) <= 7
          /\ IF results[r].post_date = <<>>
             THEN \A k \in 1..Len(nodes) : ~DateOf(soup, nodes[k]).hit
             ELSE \E k \in 1..Len(nodes) :
                    /\ DateOf(soup, nodes[k]) = [hit |-> TRUE, text |-> results[r].post_date]
                    /\ \A j \in 1..(k - 1) : ~DateOf(soup, nodes[j]).hit

\* C9, witness: the parent of an accepted anchor has no date, a forward node
\* and a backward node have different ones, and the forward one was taken.
C9_Witness ==
  /\ Examined
  /\ \E r \in 1..Len(results) :
       LET p == soup[origin[r]].parent
           fwd == ForwardNodes(soup, p)
           bwd == BackwardNodes(soup, p)
       IN  /\ ~DateOf(soup, p).hit
           /\ \E f \in 1..Len(fwd) : \E b \in 1..Len(bwd) :
                /\ DateOf(soup, fwd[f]).hit
                /\ DateOf(soup, bwd[b]).hit
                /\ DateOf(soup, fwd[f]).text # DateOf(soup, bwd[b]).text
                /\ results[r].post_date = DateOf(soup, fwd[f]).text

=============================================================================
